---- MODULE Spec2Model ----
(***************************************************************************)
(* Scope and Layer composition model exercised by the quokka-effect        *)
(* example scripts (src/effectts).  The scripts drive the effect runtime   *)
(* through Scope.make / Scope.addFinalizer / Scope.close / Effect.scoped / *)
(* Effect.acquireRelease and Layer.effect / provide / merge / fresh, and   *)
(* assert what the runtime did.  Every operation below is the operation    *)
(* the scripts call, with the behaviour the scripts' assertions pin down.  *)
(***************************************************************************)
EXTENDS Integers, Sequences, FiniteSets, TLC

\* ------------------------------------------------------------------ bounds
MaxFins == 3
MaxPasses == 2
MaxQueries == 2
MaxIncs == 3
MaxUses == 3

\* The scripts hold at most two scope lifetimes at a time: scopeA and scopeB of
\* manualScopeExample, the two runs of a scoped program one after the other.
ScopeIds == {"scopeA", "scopeB"}
FinIds == 1..MaxFins

VARIABLES
  scopes,          \* ScopeIds -> the scope: state, kind, finalizers, pending, exit
  fins,            \* FinIds -> the finalizer: kind, scope, how it was added
  nextFin,         \* next unused finalizer identity
  executionOrder,  \* the scripts' executionOrder / releaseOrder log
  lastOp,          \* ScopeIds -> the last operation performed against the scope
  result,          \* ScopeIds -> what Effect.runPromise(Effect.scoped(..)) delivered
  closedAgain,     \* ScopeIds -> was Scope.close called on the scope once closed
  task,            \* the task forked with a scope extended: its state and scope
  finErrors,       \* ScopeIds -> the finalizers of the scope whose own run failed
  closeResult,     \* ScopeIds -> what the close of the scope reported when it ended
  queriesRun,      \* ScopeIds -> scopedLayersExample's counter of queries run
  pass,            \* number of the resolution (Effect.provide run) under way
  serviceAInitCount, \* layerMemoizationExample's counter
  memoMap,         \* the resolution's memo entry for ServiceALive
  fresh,           \* branch -> is ServiceALive wrapped in Layer.fresh there
  branch,          \* branch -> where its build is, and the ServiceA it was given
  progResult,      \* what the program returned: bResult, cResult
  allLayers,       \* the composed layer: which layers, their requirements, which fails
  requires,        \* the tag the program asks for: yield* UserRepo
  resolution,      \* Effect.provide(program, allLayers): status, layers built, error
  refValue,        \* the Ref<number> of the Counter
  incs,            \* increment -> where it is: none, ready, done
  got,             \* what counter.get returned, -1 before
  syncValue,       \* the SynchronizedRef<number> of the AsyncCounter
  permit,          \* the increment that holds the SynchronizedRef, 0 when free
  asyncIncs,       \* increment -> where it is, and the n its body was given
  asyncGot,        \* what the AsyncCounter's get returned, -1 before
  greeterMemo,     \* memo map of the resolution: key -> entry (state, service)
  greeterBuilt,    \* greeter layer -> how many times it was constructed
  uses             \* place in the composition -> layer used there, pc, service received

scopeVars ==
  <<scopes, fins, nextFin, executionOrder, lastOp, result, closedAgain, task,
    finErrors, closeResult, queriesRun>>
layerVars == <<pass, serviceAInitCount, memoMap, fresh, branch, progResult>>
graphVars == <<allLayers, requires, resolution>>
refVars == <<refValue, incs, got, syncValue, permit, asyncIncs, asyncGot>>
greeterVars == <<greeterMemo, greeterBuilt, uses>>
vars == <<scopeVars, layerVars, graphVars, refVars, greeterVars>>

\* ------------------------------------------------------------------ exits
\* Exit._tag is Success or Failure; an interruption is a Failure whose cause
\* is an interrupt (finalizerWithExitExample asserts the tag "Failure").
ExitSuccess == [tag |-> "Success", cause |-> "None"]
ExitFail == [tag |-> "Failure", cause |-> "Fail"]
\* An interruption reported under a tag of its own.
ExitInterruptTagged == [tag |-> "Interrupted", cause |-> "Interrupt"]

ExitInterrupt == [tag |-> "Failure", cause |-> "Interrupt"]
NoExit == [tag |-> "None", cause |-> "None"]
Exits == {ExitSuccess, ExitFail, ExitInterrupt}
\* Scope.close is called with Exit.succeed(..) / Exit.void in the scripts; a
\* failure exit is what a caller closing after an error passes.
CloseExits == {ExitSuccess, ExitFail}

RECURSIVE Reverse(_)
Reverse(s) == IF s = <<>> THEN <<>> ELSE Append(Reverse(Tail(s)), Head(s))

Range(s) == {s[i] : i \in 1..Len(s)}

\* ------------------------------------------------------------------ scopes
NewScope(k) ==
  [state |-> "Open", kind |-> k, finalizers |-> <<>>, pending |-> <<>>,
   exit |-> NoExit]

UnmadeScope ==
  [state |-> "Unmade", kind |-> "none", finalizers |-> <<>>, pending |-> <<>>,
   exit |-> NoExit]

UnusedFin == [kind |-> "unused", scope |-> "none", added |-> "none"]

\* The scripts run on one main task: a scoped block is awaited before the next
\* one starts, and Scope.close returns only after the finalizers have run.
InBody(s) == scopes[s].kind = "scoped" /\ scopes[s].state = "Open"

InClose(s) == scopes[s].state = "Closing"

MainIdle == \A s \in ScopeIds : ~InBody(s) /\ ~InClose(s)

\* The main task may use s: it is inside the scoped block of s, or s is a
\* scope value made by Scope.make that the task holds and has not closed.
MainAt(s) ==
  \/ InBody(s)
  \/ scopes[s].kind = "manual" /\ scopes[s].state = "Open" /\ MainIdle

\* scopeA is made before scopeB.
FirstUnmade(s) ==
  /\ scopes[s].state = "Unmade"
  /\ s = "scopeB" => scopes["scopeA"].state # "Unmade"

\* Scope.make(): a new open scope with no finalizers, closed only by Scope.close.
ScopeMake(s) ==
  /\ MainIdle
  /\ FirstUnmade(s)
  /\ scopes' = [scopes EXCEPT ![s] = NewScope("manual")]
  /\ lastOp' = [lastOp EXCEPT ![s] = "make"]
  /\ UNCHANGED <<fins, nextFin, executionOrder, result, closedAgain, task,
               finErrors, closeResult, queriesRun>>

\* Effect.scoped(body): a new scope the body runs in, closed when the body exits.
Scoped(s) ==
  /\ MainIdle
  /\ FirstUnmade(s)
  /\ scopes' = [scopes EXCEPT ![s] = NewScope("scoped")]
  /\ lastOp' = [lastOp EXCEPT ![s] = "scoped"]
  /\ UNCHANGED <<fins, nextFin, executionOrder, result, closedAgain, task,
               finErrors, closeResult, queriesRun>>

\* A registration that puts the finalizer at the head of the list.
RegisterOpenPrepends(sc, f) == [sc EXCEPT !.finalizers = <<f>> \o @]

\* A registration that does not reach the list of the scope extended into.
RegisterOpenLoses(sc, f) == sc

\* Scope.addFinalizer on an open scope appends to its list.
RegisterOpen(sc, f) == [sc EXCEPT !.finalizers = Append(@, f)]

\* A registration on a closed scope that fails and runs nothing.
RegisterClosedFails(s, f) == <<"ScopeClosedError", executionOrder>>

\* A registration on a closed scope that forgets the finalizer.
RegisterClosedDrops(s, f) == <<"ranImmediately", executionOrder>>

\* Scope.addFinalizer on a scope that is no longer open: the finalizer is not
\* kept, it is run at once with the exit the scope was closed with
\* (asyncScopeExample: "Task was cleaned up").
RegisterClosed(s, f) ==
  <<"ranImmediately",
    Append(executionOrder, [fin |-> f, scope |-> s, exit |-> scopes[s].exit])>>

\* Scope.addFinalizer(scope, fin)
Register(s, f, k) ==
  IF scopes[s].state = "Open"
  THEN /\ scopes' = [scopes EXCEPT ![s] = RegisterOpen(@, f)]
       /\ fins' = [fins EXCEPT ![f] = [kind |-> k, scope |-> s, added |-> "registered"]]
       /\ UNCHANGED executionOrder
  ELSE /\ fins' = [fins EXCEPT ![f] =
                     [kind |-> k, scope |-> s, added |-> RegisterClosed(s, f)[1]]]
       /\ executionOrder' = RegisterClosed(s, f)[2]
       /\ UNCHANGED scopes

\* Effect.addFinalizer(..) in a scoped body, Scope.addFinalizer(scope, ..)
AddFinalizer(s) ==
  /\ MainAt(s)
  /\ nextFin <= MaxFins
  /\ Register(s, nextFin, "finalizer")
  /\ nextFin' = nextFin + 1
  /\ lastOp' = [lastOp EXCEPT ![s] = "addFinalizer"]
  /\ UNCHANGED <<result, closedAgain, task,
               finErrors, closeResult, queriesRun>>

\* An acquireRelease that registers the release whether or not acquire failed.
RegisterReleaseAlways(s, f, ok) ==
  Register(s, f, IF ok THEN "release" ELSE "acquireFailed")

\* Effect.acquireRelease(acquire, release): when acquire succeeds the release
\* is registered as a finalizer of the ambient scope, in the same
\* uninterruptible step; when acquire fails nothing is registered.
RegisterRelease(s, f, ok) ==
  IF ok
  THEN Register(s, f, "release")
  ELSE /\ fins' = [fins EXCEPT ![f] = [kind |-> "acquireFailed", scope |-> s, added |-> "none"]]
       /\ UNCHANGED <<scopes, executionOrder>>

\* A close that runs the finalizers in registration order.
CloseOrderFIFO(fs) == fs

\* The order in which a closing scope runs the finalizers registered on it.
CloseOrder(fs) == Reverse(fs)

\* A close that forgets the finalizers when the exit is an interruption.
ClosingSkipsOnInterrupt(sc, e) ==
  [sc EXCEPT !.state = "Closing", !.exit = e,
             !.pending = IF e = ExitInterrupt THEN <<>> ELSE Reverse(sc.finalizers)]

\* What becomes of a scope whose body exits or that Scope.close is called on:
\* it stops accepting finalizers, remembers the exit and owes its finalizers.
Closing(sc, e) ==
  [sc EXCEPT !.state = "Closing", !.exit = e, !.pending = CloseOrder(sc.finalizers)]

\* yield* resource, the acquire succeeding (resourceA, resourceB, createA, ..);
\* on a scope value: resourceA.pipe(Scope.extend(scopeA)).
AcquireRelease(s) ==
  /\ MainAt(s)
  /\ nextFin <= MaxFins
  /\ RegisterRelease(s, nextFin, TRUE)
  /\ nextFin' = nextFin + 1
  /\ lastOp' = [lastOp EXCEPT ![s] = "acquire"]
  /\ UNCHANGED <<result, closedAgain, task,
               finErrors, closeResult, queriesRun>>

\* yield* Effect.either(createC(a, b)), the acquire failing and the failure
\* being caught: the body goes on (transactionExample, first attempt).
AcquireFailCaught(s) ==
  /\ InBody(s)
  /\ nextFin <= MaxFins
  /\ RegisterRelease(s, nextFin, FALSE)
  /\ nextFin' = nextFin + 1
  /\ lastOp' = [lastOp EXCEPT ![s] = "acquireFailCaught"]
  /\ UNCHANGED <<result, closedAgain, task,
               finErrors, closeResult, queriesRun>>

\* A body that goes on after Effect.fail.
EndsBodyNotFail(op) == op \in {"return", "interrupt", "acquireFail"}

\* Does the body of a scoped block end with this operation.
EndsBody(op) == op \in {"return", "fail", "interrupt", "acquireFail"}

\* A scoped block that drops its scope without closing it when the body fails.
AfterBodyOpLeaks(sc, e, op) ==
  IF op = "fail" THEN [sc EXCEPT !.state = "Closed", !.exit = e]
  ELSE [sc EXCEPT !.state = "Closing", !.exit = e, !.pending = Reverse(sc.finalizers)]

\* The scope of a scoped block after the body performed op with exit e.
AfterBodyOp(sc, e, op) == IF EndsBody(op) THEN Closing(sc, e) ELSE sc

\* The body of Effect.scoped exits with e: the scope is closed with e.
ScopedExit(s, e, op) ==
  /\ InBody(s)
  /\ scopes' = [scopes EXCEPT ![s] = AfterBodyOp(@, e, op)]
  /\ lastOp' = [lastOp EXCEPT ![s] = op]

\* yield* resource inside a scoped body, the acquire failing uncaught: the
\* body fails with the acquire's error and nothing was registered.
AcquireFail(s) ==
  /\ nextFin <= MaxFins
  /\ ScopedExit(s, ExitFail, "acquireFail")
  /\ fins' = [fins EXCEPT ![nextFin] = [kind |-> "acquireFailed", scope |-> s, added |-> "none"]]
  /\ nextFin' = nextFin + 1
  /\ UNCHANGED <<executionOrder, result, closedAgain, task,
               finErrors, closeResult, queriesRun>>

\* return "ok"
Return(s) ==
  /\ ScopedExit(s, ExitSuccess, "return")
  /\ UNCHANGED <<fins, nextFin, executionOrder, result, closedAgain, task,
               finErrors, closeResult, queriesRun>>

\* yield* Effect.fail("err")
Fail(s) ==
  /\ ScopedExit(s, ExitFail, "fail")
  /\ UNCHANGED <<fins, nextFin, executionOrder, result, closedAgain, task,
               finErrors, closeResult, queriesRun>>

\* An interruption that closes the scope as if the body had returned.
InterruptAsSuccess(s) ==
  /\ ScopedExit(s, ExitSuccess, "interrupt")
  /\ UNCHANGED <<fins, nextFin, executionOrder, result, closedAgain, task,
               finErrors, closeResult, queriesRun>>

\* yield* Effect.interrupt, or the task being interrupted from outside
Interrupt(s) ==
  /\ ScopedExit(s, ExitInterrupt, "interrupt")
  /\ UNCHANGED <<fins, nextFin, executionOrder, result, closedAgain, task,
               finErrors, closeResult, queriesRun>>

\* A close that does not look at whether the scope was closed before.
ScopeCloseAnyState(s, e) ==
  /\ MainIdle
  /\ scopes[s].kind = "manual"
  /\ scopes[s].state \in {"Open", "Closed"}
  /\ scopes' = [scopes EXCEPT ![s].state = "Closing", ![s].exit = e,
                               ![s].pending = Reverse(scopes[s].finalizers)]
  /\ lastOp' = [lastOp EXCEPT ![s] = "close"]
  /\ UNCHANGED <<fins, nextFin, executionOrder, result, closedAgain, task,
               finErrors, closeResult, queriesRun>>

\* A close that closes every open scope the task holds.
ScopeCloseAll(s, e) ==
  /\ MainIdle
  /\ scopes[s].kind = "manual"
  /\ scopes[s].state = "Open"
  /\ scopes' = [t \in ScopeIds |->
                  IF scopes[t].kind = "manual" /\ scopes[t].state = "Open"
                  THEN Closing(scopes[t], e) ELSE scopes[t]]
  /\ lastOp' = [lastOp EXCEPT ![s] = "close"]
  /\ UNCHANGED <<fins, nextFin, executionOrder, result, closedAgain, task,
               finErrors, closeResult, queriesRun>>

\* A close that cancels the task forked with the scope extended.
ScopeCloseCancelsTask(s, e) ==
  /\ MainIdle
  /\ scopes[s].kind = "manual"
  /\ scopes[s].state = "Open"
  /\ scopes' = [scopes EXCEPT ![s] = Closing(@, e)]
  /\ lastOp' = [lastOp EXCEPT ![s] = "close"]
  /\ task' = IF task = [state |-> "sleeping", scope |-> s]
             THEN [state |-> "cancelled", scope |-> s] ELSE task
  /\ UNCHANGED <<fins, nextFin, executionOrder, result, closedAgain,
               finErrors, closeResult, queriesRun>>

\* Scope.close(scope, exit) on a scope that is open.
ScopeClose(s, e) ==
  /\ MainIdle
  /\ scopes[s].kind = "manual"
  /\ scopes[s].state = "Open"
  /\ scopes' = [scopes EXCEPT ![s] = Closing(@, e)]
  /\ lastOp' = [lastOp EXCEPT ![s] = "close"]
  /\ UNCHANGED <<fins, nextFin, executionOrder, result, closedAgain, task,
               finErrors, closeResult, queriesRun>>

\* Scope.close(scope, exit) on a scope that was closed before: nothing is run
\* and the scope keeps the exit it was closed with.
ScopeCloseAgain(s) ==
  /\ MainIdle
  /\ scopes[s].kind = "manual"
  /\ scopes[s].state = "Closed"
  /\ closedAgain' = [closedAgain EXCEPT ![s] = TRUE]
  /\ UNCHANGED <<scopes, fins, nextFin, executionOrder, lastOp, result, task,
               finErrors, closeResult, queriesRun>>

\* A close that keeps the last finalizer pending after running it.
AfterRunStuck(p) == IF Len(p) = 1 THEN p ELSE Tail(p)

\* What is left to run once the head of the pending finalizers has run.
AfterRun(p) == Tail(p)

\* One finalizer of a closing scope runs, and is handed the scope's exit.
RunFinalizer(s) ==
  /\ InClose(s)
  /\ scopes[s].pending # <<>>
  /\ executionOrder' =
       Append(executionOrder,
              [fin |-> Head(scopes[s].pending), scope |-> s, exit |-> scopes[s].exit])
  /\ scopes' = [scopes EXCEPT ![s].pending = AfterRun(@)]
  /\ UNCHANGED <<fins, nextFin, lastOp, result, closedAgain, task,
               finErrors, closeResult, queriesRun>>

\* A close that stops at the first finalizer that fails.
AfterFailedRunAborts(p) == <<>>

\* What is left to run once the head of the pending finalizers has failed:
\* the failure does not keep the remaining finalizers from running.
AfterFailedRun(p) == Tail(p)

\* The failure of a finalizer is captured with those captured before.
Captured(errs, f) == errs \cup {f}

\* One finalizer of a closing scope runs, handed the scope's exit, and fails.
RunFinalizerFails(s) ==
  /\ InClose(s)
  /\ scopes[s].pending # <<>>
  /\ executionOrder' =
       Append(executionOrder,
              [fin |-> Head(scopes[s].pending), scope |-> s, exit |-> scopes[s].exit])
  /\ scopes' = [scopes EXCEPT ![s].pending = AfterFailedRun(@)]
  /\ finErrors' = [finErrors EXCEPT ![s] = Captured(@, Head(scopes[s].pending))]
  /\ UNCHANGED <<fins, nextFin, lastOp, result, closedAgain, task, closeResult,
               queriesRun>>

NoReport == [tag |-> "None", primary |-> NoExit, finalizerErrors |-> {}]

\* A report in which the finalizer failures take the place of the exit.
MergedReplaces(e, errs) ==
  [tag |-> IF e.tag = "Failure" \/ errs # {} THEN "Failure" ELSE "Success",
   primary |-> IF errs # {} THEN NoExit ELSE e,
   finalizerErrors |-> errs]

\* What a close reports: the exit the scope was closed with, and with it the
\* failures of the finalizers; a failure of either makes the report a Failure.
Merged(e, errs) ==
  [tag |-> IF e.tag = "Failure" \/ errs # {} THEN "Failure" ELSE "Success",
   primary |-> e,
   finalizerErrors |-> errs]

\* The exit Effect.runPromise(Effect.scoped(body)) settles with.
Delivered(sc) == sc.exit

\* All finalizers have run: the close completes, and the scoped block's exit
\* reaches the caller.
CloseDone(s) ==
  /\ InClose(s)
  /\ scopes[s].pending = <<>>
  /\ scopes' = [scopes EXCEPT ![s].state = "Closed"]
  /\ result' = [result EXCEPT ![s] =
                  IF scopes[s].kind = "scoped" THEN Delivered(scopes[s]) ELSE @]
  /\ closeResult' = [closeResult EXCEPT ![s] = Merged(scopes[s].exit, finErrors[s])]
  /\ UNCHANGED <<fins, nextFin, executionOrder, lastOp, closedAgain, task, finErrors,
               queriesRun>>

\* Has the scoped layer been built in s: its connection acquired and the
\* release registered on the scope of the resolution.
Connected(s) ==
  \E f \in Range(scopes[s].finalizers) : fins[f].kind = "release"

\* A program that goes on using the connection once its scope is closing.
CanQueryLate(s) == Connected(s) /\ scopes[s].kind = "scoped"

\* const db = yield* DbConnection: the program holds the service of the layer
\* while it runs, inside the scoped block.
CanQuery(s) == Connected(s) /\ InBody(s)

\* yield* db.query(..): queriesRun++
Query(s) ==
  /\ CanQuery(s)
  /\ queriesRun[s] < MaxQueries
  /\ queriesRun' = [queriesRun EXCEPT ![s] = @ + 1]
  /\ lastOp' = [lastOp EXCEPT ![s] = "query"]
  /\ UNCHANGED <<scopes, fins, nextFin, executionOrder, result, closedAgain, task,
               finErrors, closeResult>>

\* delayedTask.pipe(Effect.fork, Scope.extend(scope)): the task that holds the
\* scope starts and sleeps.
Fork(s) ==
  /\ MainIdle
  /\ scopes[s].kind = "manual"
  /\ scopes[s].state = "Open"
  /\ task.state = "none"
  /\ task' = [state |-> "sleeping", scope |-> s]
  /\ UNCHANGED <<scopes, fins, nextFin, executionOrder, lastOp, result, closedAgain,
               finErrors, closeResult, queriesRun>>

\* The forked task wakes up, completes and adds its finalizer, whatever has
\* happened to the scope meanwhile.
TaskAddFinalizer(s) ==
  /\ task = [state |-> "sleeping", scope |-> s]
  /\ nextFin <= MaxFins
  /\ Register(s, nextFin, "finalizer")
  /\ nextFin' = nextFin + 1
  /\ task' = [task EXCEPT !.state = "completed"]
  /\ UNCHANGED <<lastOp, result, closedAgain,
               finErrors, closeResult, queriesRun>>

ScopeInit ==
  /\ scopes = [s \in ScopeIds |-> UnmadeScope]
  /\ fins = [f \in FinIds |-> UnusedFin]
  /\ nextFin = 1
  /\ executionOrder = <<>>
  /\ lastOp = [s \in ScopeIds |-> "none"]
  /\ result = [s \in ScopeIds |-> NoExit]
  /\ closedAgain = [s \in ScopeIds |-> FALSE]
  /\ task = [state |-> "none", scope |-> "none"]
  /\ finErrors = [s \in ScopeIds |-> {}]
  /\ closeResult = [s \in ScopeIds |-> NoReport]
  /\ queriesRun = [s \in ScopeIds |-> 0]

\* ------------------------------------------------------------------ layers
\* layerMemoizationExample: ServiceBLive and ServiceCLive both require
\* ServiceA; each is provided with ServiceALive, or with
\* Layer.fresh(ServiceALive), and the two are merged.
Branches == {"B", "C"}

NoEntry == [state |-> "absent", value |-> 0]

NotStarted == [pc |-> "idle", a |-> 0]

NoResult == [bResult |-> 0, cResult |-> 0]

LayerInit ==
  /\ pass = 0
  /\ serviceAInitCount = 0
  /\ memoMap = NoEntry
  /\ fresh = [b \in Branches |-> FALSE]
  /\ branch = [b \in Branches |-> NotStarted]
  /\ progResult = NoResult

PassOver == \A b \in Branches : branch[b].pc \in {"idle", "done"}

\* A resolution that goes on with the memo map of the one before.
MemoMapOfLastRun(m) == m

\* The memo map a resolution starts with: one of its own, with no entry.
NewMemoMap(m) == NoEntry

\* Effect.runPromise(program.pipe(Effect.provide(layer))): a resolution starts
\* with an empty memo map; the script resets its counter before each.
Provide(fb, fc) ==
  /\ pass < MaxPasses
  /\ PassOver
  /\ pass' = pass + 1
  /\ serviceAInitCount' = 0
  /\ memoMap' = NewMemoMap(memoMap)
  /\ fresh' = [b \in Branches |-> IF b = "B" THEN fb ELSE fc]
  /\ branch' = [b \in Branches |-> [pc |-> "start", a |-> 0]]
  /\ progResult' = NoResult

\* A layer wrapped in Layer.fresh is built apart from the resolution's memo map.
UsesMemoMapNever(fr) == FALSE

UsesMemoMapAlways(fr) == TRUE

UsesMemoMap(fr) == ~fr

\* A memo map whose entry is written only when the construction has ended.
ClaimEntryLate(m) == m

\* The memo entry of a layer once a branch has asked for it: the entry is
\* there, with the construction under way, for whoever asks next.
ClaimEntry(m) == [m EXCEPT !.state = "pending"]

\* Layer.provide(ServiceXLive, ServiceALive): the branch asks for ServiceALive.
\* The first to ask for a memoized layer claims its entry and builds it, the
\* others wait for that entry.
Lookup(b) ==
  /\ branch[b].pc = "start"
  /\ IF ~UsesMemoMap(fresh[b])
     THEN /\ branch' = [branch EXCEPT ![b].pc = "construct"]
          /\ UNCHANGED memoMap
     ELSE IF memoMap.state = "absent"
     THEN /\ memoMap' = ClaimEntry(memoMap)
          /\ branch' = [branch EXCEPT ![b].pc = "construct"]
     ELSE /\ branch' = [branch EXCEPT ![b].pc = "await"]
          /\ UNCHANGED memoMap
  /\ UNCHANGED <<pass, serviceAInitCount, fresh, progResult>>

\* ServiceALive's effect: serviceAInitCount++; return { value: `A-${count}` }
ConstructA(b) ==
  /\ branch[b].pc = "construct"
  /\ serviceAInitCount' = serviceAInitCount + 1
  /\ branch' = [branch EXCEPT ![b] = [pc |-> "haveA", a |-> serviceAInitCount + 1]]
  /\ memoMap' = IF UsesMemoMap(fresh[b])
                THEN [state |-> "done", value |-> serviceAInitCount + 1]
                ELSE memoMap
  /\ UNCHANGED <<pass, fresh, progResult>>

\* The branch that waited is given the memoized ServiceA.
AwaitA(b) ==
  /\ branch[b].pc = "await"
  /\ memoMap.state = "done"
  /\ branch' = [branch EXCEPT ![b] = [pc |-> "haveA", a |-> memoMap.value]]
  /\ UNCHANGED <<pass, serviceAInitCount, memoMap, fresh, progResult>>

\* ServiceBLive / ServiceCLive: const serviceA = yield* ServiceA; the service
\* keeps the ServiceA it was given.
BuildService(b) ==
  /\ branch[b].pc = "haveA"
  /\ branch' = [branch EXCEPT ![b].pc = "built"]
  /\ UNCHANGED <<pass, serviceAInitCount, memoMap, fresh, progResult>>

\* The program: bResult = serviceB.useA(), cResult = serviceC.useA().
RunProgram ==
  /\ \A b \in Branches : branch[b].pc = "built"
  /\ progResult' = [bResult |-> branch["B"].a, cResult |-> branch["C"].a]
  /\ branch' = [b \in Branches |-> [branch[b] EXCEPT !.pc = "done"]]
  /\ UNCHANGED <<pass, serviceAInitCount, memoMap, fresh>>

\* ------------------------------------------------------------ composition
\* layerCompositionExample / layerErrorHandlingExample: the layers ConfigLive,
\* DatabaseLive and UserRepoLive composed with Layer.provide and Layer.merge,
\* each providing the tag of its name and requiring the tags it yields.
LayerIds == {"Config", "Database", "UserRepo"}

NoLayers == [present |-> {}, deps |-> [l \in LayerIds |-> {}], failing |-> {}]

Idle == [status |-> "idle", built |-> {}, error |-> "none"]

GraphInit ==
  /\ allLayers = NoLayers
  /\ requires = "none"
  /\ resolution = Idle

\* The composed layers a script can hand to Effect.provide: some of the layers,
\* each requiring some of the tags, at most one of them built with Layer.fail.
Compositions ==
  {[present |-> p, deps |-> d, failing |-> f] :
     p \in SUBSET LayerIds, d \in [LayerIds -> SUBSET LayerIds],
     f \in {{}} \cup {{l} : l \in LayerIds}}

\* Effect.runPromise(Effect.provide(program, allLayers))
StartResolve(g, r) ==
  /\ resolution.status = "idle"
  /\ g.failing \subseteq g.present
  /\ \A l \in LayerIds \ g.present : g.deps[l] = {}
  /\ allLayers' = g
  /\ requires' = r
  /\ resolution' = [resolution EXCEPT !.status = "checking"]

\* The tags asked for: by the program, and by the layers of the composition.
Asked(g, r) == {r} \cup UNION {g.deps[l] : l \in g.present}

\* The tags asked for that no layer of the composition provides.
Unprovided(g, r) == Asked(g, r) \ g.present

\* A resolution that looks for providers only as it constructs.
CheckedProvidedNever(g, r) == "ordering"

\* resolve: a tag asked for without a layer providing it ends the resolution
\* with MissingDependencyError before anything is ordered or constructed.
CheckedProvided(g, r) ==
  IF Unprovided(g, r) # {} THEN "MissingDependencyError" ELSE "ordering"

CheckProvided ==
  /\ resolution.status = "checking"
  /\ resolution' = [resolution EXCEPT !.status = CheckedProvided(allLayers, requires)]
  /\ UNCHANGED <<allLayers, requires>>

\* The layers that can be put in a dependency-first order: those whose
\* requirements are ordered already are ordered next, as long as there are any.
RECURSIVE Orderable(_, _)
Orderable(g, done) ==
  LET next == {l \in g.present \ done : g.deps[l] \subseteq done} IN
  IF next = {} THEN done ELSE Orderable(g, done \cup next)

\* A resolution that takes any composition for ordered.
CheckedOrderNever(g) == "constructing"

\* resolve: a composition whose layers cannot all be ordered dependency-first
\* ends the resolution with CyclicDependencyError before anything is built.
CheckedOrder(g) ==
  IF Orderable(g, {}) # g.present THEN "CyclicDependencyError" ELSE "constructing"

CheckOrder ==
  /\ resolution.status = "ordering"
  /\ resolution' = [resolution EXCEPT !.status = CheckedOrder(allLayers)]
  /\ UNCHANGED <<allLayers, requires>>

\* A layer built whether or not what it requires has been built.
DepsBuiltOrNot(g, l, b) == TRUE

\* const config = yield* Config: the layer's effect is run with the services
\* of the layers it was provided with.
DepsBuilt(g, l, b) == g.deps[l] \subseteq b

\* A construction failure that is dropped, the resolution going on.
FailedWithLost(res, l) == [res EXCEPT !.built = @ \cup {l}]

\* Layer.fail(new ConfigError(..)): the resolution ends with the layer's error.
FailedWith(res, l) == [res EXCEPT !.status = "Failure", !.error = l]

\* Layer.succeed / Layer.effect: one layer of the composition is built; merged
\* layers are built in any order, a provided layer after what it is given.
Construct(l) ==
  /\ resolution.status = "constructing"
  /\ l \in allLayers.present \ resolution.built
  /\ DepsBuilt(allLayers, l, resolution.built)
  /\ resolution' = IF l \in allLayers.failing
                   THEN FailedWith(resolution, l)
                   ELSE [resolution EXCEPT !.built = @ \cup {l}]
  /\ UNCHANGED <<allLayers, requires>>

\* The program runs with the services of the layers, all built.
RunProvided ==
  /\ resolution.status = "constructing"
  /\ resolution.built = allLayers.present
  /\ resolution' = [resolution EXCEPT !.status = "Success"]
  /\ UNCHANGED <<allLayers, requires>>

\* ------------------------------------------------------------------- refs
\* basicRefExample's concurrentProgram: a Counter over Ref.make(0) and N
\* counter.inc run with unbounded concurrency; synchronizedRef: an AsyncCounter
\* over SynchronizedRef.make(100) and five inc run the same way.
IncIds == 1..MaxIncs

AsyncIncs == 5

AsyncInitial == 100

AsyncIds == 1..AsyncIncs

RefInit ==
  /\ refValue = 0
  /\ incs = [i \in IncIds |-> "none"]
  /\ got = -1
  /\ syncValue = AsyncInitial
  /\ permit = 0
  /\ asyncIncs = [i \in AsyncIds |-> [pc |-> "none", n |-> 0]]
  /\ asyncGot = -1

\* Effect.all(Array.from({ length: N }, () => counter.inc),
\*            { concurrency: "unbounded" })
StartIncs(n) ==
  /\ \A i \in IncIds : incs[i] = "none"
  /\ incs' = [i \in IncIds |-> IF i <= n THEN "ready" ELSE "none"]
  /\ UNCHANGED <<refValue, got, syncValue, permit, asyncIncs, asyncGot>>

\* An update computed from the value the Ref held when the increments started.
UpdatedFromStart(n) == 1

\* (n) => n + 1
Updated(n) == n + 1

\* counter.inc: Ref.update(this.value, (n) => n + 1), read and write in one step
Inc(i) ==
  /\ incs[i] = "ready"
  /\ refValue' = Updated(refValue)
  /\ incs' = [incs EXCEPT ![i] = "done"]
  /\ UNCHANGED <<got, syncValue, permit, asyncIncs, asyncGot>>

\* const value = yield* counter.get, once Effect.all has completed
Get ==
  /\ got = -1
  /\ \E i \in IncIds : incs[i] # "none"
  /\ \A i \in IncIds : incs[i] # "ready"
  /\ got' = refValue
  /\ UNCHANGED <<refValue, incs, syncValue, permit, asyncIncs, asyncGot>>

\* Effect.all([counter.inc, .. five times ..], { concurrency: "unbounded" })
StartAsync ==
  /\ \A i \in AsyncIds : asyncIncs[i].pc = "none"
  /\ asyncIncs' = [i \in AsyncIds |-> [pc |-> "ready", n |-> 0]]
  /\ UNCHANGED <<refValue, incs, got, syncValue, permit, asyncGot>>

\* SynchronizedRef.updateEffect: the increment takes the ref, its body is
\* given the current n and suspends (Effect.sleep("100 millis")).
Enter(i) ==
  /\ asyncIncs[i].pc = "ready"
  /\ permit = 0
  /\ permit' = i
  /\ asyncIncs' = [asyncIncs EXCEPT ![i] = [pc |-> "saving", n |-> syncValue]]
  /\ UNCHANGED <<refValue, incs, got, syncValue, asyncGot>>

\* return n + 1: the body's result is written and the ref is given back.
Save(i) ==
  /\ asyncIncs[i].pc = "saving"
  /\ syncValue' = asyncIncs[i].n + 1
  /\ permit' = 0
  /\ asyncIncs' = [asyncIncs EXCEPT ![i].pc = "done"]
  /\ UNCHANGED <<refValue, incs, got, asyncGot>>

\* const result = yield* counter.get, once Effect.all has completed
AsyncGet ==
  /\ asyncGot = -1
  /\ \A i \in AsyncIds : asyncIncs[i].pc = "done"
  /\ asyncGot' = syncValue
  /\ UNCHANGED <<refValue, incs, got, syncValue, permit, asyncIncs>>

\* --------------------------------------------------------------- greeters
\* minimalLayerExample: KindGreeterLayer and MeanGreeterLayer, two layers that
\* provide the one tag Greeter. A resolution in which each place of the
\* composition uses one of the two, with the memo map of layerMemoizationExample.
GreeterTag == "Greeter"

GreeterLayers == {"KindGreeterLayer", "MeanGreeterLayer"}

\* Layer.succeed(Greeter, kindGreeter), Layer.succeed(Greeter, meanGreeter)
ServiceOf(l) == IF l = "KindGreeterLayer" THEN "kindGreeter" ELSE "meanGreeter"

UseIds == 1..MaxUses

MemoKeys == GreeterLayers \cup {GreeterTag}

NoGreeter == [state |-> "absent", service |-> "none"]

NotUsed == [layer |-> "none", pc |-> "idle", service |-> "none"]

GreeterInit ==
  /\ greeterMemo = [k \in MemoKeys |-> NoGreeter]
  /\ greeterBuilt = [l \in GreeterLayers |-> 0]
  /\ uses = [u \in UseIds |-> NotUsed]

\* A memo map keyed by the tag the layer provides.
MemoKeyByTag(l) == GreeterTag

\* The memo map is keyed by the layer itself.
MemoKey(l) == l

\* Effect.provide(program, layer): one resolution, with a memo map of its own,
\* of a composition that uses the layers chosen at its places.
ProvideGreeters(choice) ==
  /\ \A u \in UseIds : uses[u].pc = "idle"
  /\ uses' = [u \in UseIds |-> [layer |-> choice[u], pc |-> "start", service |-> "none"]]
  /\ greeterMemo' = [k \in MemoKeys |-> NoGreeter]
  /\ greeterBuilt' = [l \in GreeterLayers |-> 0]

\* The place asks the memo map for its layer: the first to ask for an entry
\* claims it and constructs the layer, the others wait for that entry.
LookupGreeter(u) ==
  /\ uses[u].pc = "start"
  /\ IF greeterMemo[MemoKey(uses[u].layer)].state = "absent"
     THEN /\ greeterMemo' = [greeterMemo EXCEPT ![MemoKey(uses[u].layer)].state = "pending"]
          /\ uses' = [uses EXCEPT ![u].pc = "construct"]
     ELSE /\ uses' = [uses EXCEPT ![u].pc = "await"]
          /\ UNCHANGED greeterMemo
  /\ UNCHANGED greeterBuilt

\* Layer.succeed(Greeter, service): the layer is constructed and its service
\* is stored in the entry.
ConstructGreeter(u) ==
  /\ uses[u].pc = "construct"
  /\ greeterBuilt' = [greeterBuilt EXCEPT ![uses[u].layer] = greeterBuilt[uses[u].layer] + 1]
  /\ greeterMemo' = [greeterMemo EXCEPT ![MemoKey(uses[u].layer)] =
                       [state |-> "built", service |-> ServiceOf(uses[u].layer)]]
  /\ uses' = [uses EXCEPT ![u] = [layer |-> uses[u].layer, pc |-> "done",
                                  service |-> ServiceOf(uses[u].layer)]]

\* A place that waited is served from the entry once it is built.
AwaitGreeter(u) ==
  /\ uses[u].pc = "await"
  /\ greeterMemo[MemoKey(uses[u].layer)].state = "built"
  /\ uses' = [uses EXCEPT ![u] = [layer |-> uses[u].layer, pc |-> "done",
                                  service |-> greeterMemo[MemoKey(uses[u].layer)].service]]
  /\ UNCHANGED <<greeterMemo, greeterBuilt>>

Init == ScopeInit /\ LayerInit /\ GraphInit /\ RefInit /\ GreeterInit

Next ==
  \/ \E s \in ScopeIds : ScopeMake(s) /\ UNCHANGED <<layerVars, graphVars, refVars, greeterVars>>
  \/ \E s \in ScopeIds : Scoped(s) /\ UNCHANGED <<layerVars, graphVars, refVars, greeterVars>>
  \/ \E s \in ScopeIds : AddFinalizer(s) /\ UNCHANGED <<layerVars, graphVars, refVars, greeterVars>>
  \/ \E s \in ScopeIds : AcquireRelease(s) /\ UNCHANGED <<layerVars, graphVars, refVars, greeterVars>>
  \/ \E s \in ScopeIds : AcquireFailCaught(s) /\ UNCHANGED <<layerVars, graphVars, refVars, greeterVars>>
  \/ \E s \in ScopeIds : AcquireFail(s) /\ UNCHANGED <<layerVars, graphVars, refVars, greeterVars>>
  \/ \E s \in ScopeIds : Return(s) /\ UNCHANGED <<layerVars, graphVars, refVars, greeterVars>>
  \/ \E s \in ScopeIds : Fail(s) /\ UNCHANGED <<layerVars, graphVars, refVars, greeterVars>>
  \/ \E s \in ScopeIds : Interrupt(s) /\ UNCHANGED <<layerVars, graphVars, refVars, greeterVars>>
  \/ \E s \in ScopeIds, e \in CloseExits : ScopeClose(s, e) /\ UNCHANGED <<layerVars, graphVars, refVars, greeterVars>>
  \/ \E s \in ScopeIds : ScopeCloseAgain(s) /\ UNCHANGED <<layerVars, graphVars, refVars, greeterVars>>
  \/ \E s \in ScopeIds : Fork(s) /\ UNCHANGED <<layerVars, graphVars, refVars, greeterVars>>
  \/ \E s \in ScopeIds : TaskAddFinalizer(s) /\ UNCHANGED <<layerVars, graphVars, refVars, greeterVars>>
  \/ \E s \in ScopeIds : RunFinalizer(s) /\ UNCHANGED <<layerVars, graphVars, refVars, greeterVars>>
  \/ \E s \in ScopeIds : CloseDone(s) /\ UNCHANGED <<layerVars, graphVars, refVars, greeterVars>>

\* The scope scripts: the main task and the task it forks.
Spec == Init /\ [][Next]_vars

LayerStep ==
  \/ \E fb, fc \in BOOLEAN : Provide(fb, fc) /\ UNCHANGED <<scopeVars, graphVars, refVars, greeterVars>>
  \/ \E b \in Branches : Lookup(b) /\ UNCHANGED <<scopeVars, graphVars, refVars, greeterVars>>
  \/ \E b \in Branches : ConstructA(b) /\ UNCHANGED <<scopeVars, graphVars, refVars, greeterVars>>
  \/ \E b \in Branches : AwaitA(b) /\ UNCHANGED <<scopeVars, graphVars, refVars, greeterVars>>
  \/ \E b \in Branches : BuildService(b) /\ UNCHANGED <<scopeVars, graphVars, refVars, greeterVars>>
  \/ RunProgram /\ UNCHANGED <<scopeVars, graphVars, refVars, greeterVars>>

\* The layer scripts: the resolutions of the merged layer, one after the other.
LayerSpec == Init /\ [][LayerStep]_vars

CloseStep ==
  \/ \E s \in ScopeIds : ScopeMake(s) /\ UNCHANGED <<layerVars, graphVars, refVars, greeterVars>>
  \/ \E s \in ScopeIds : Scoped(s) /\ UNCHANGED <<layerVars, graphVars, refVars, greeterVars>>
  \/ \E s \in ScopeIds : AddFinalizer(s) /\ UNCHANGED <<layerVars, graphVars, refVars, greeterVars>>
  \/ \E s \in ScopeIds : AcquireRelease(s) /\ UNCHANGED <<layerVars, graphVars, refVars, greeterVars>>
  \/ \E s \in ScopeIds : Return(s) /\ UNCHANGED <<layerVars, graphVars, refVars, greeterVars>>
  \/ \E s \in ScopeIds : Fail(s) /\ UNCHANGED <<layerVars, graphVars, refVars, greeterVars>>
  \/ \E s \in ScopeIds : Interrupt(s) /\ UNCHANGED <<layerVars, graphVars, refVars, greeterVars>>
  \/ \E s \in ScopeIds, e \in CloseExits : ScopeClose(s, e) /\ UNCHANGED <<layerVars, graphVars, refVars, greeterVars>>
  \/ \E s \in ScopeIds : RunFinalizer(s) /\ UNCHANGED <<layerVars, graphVars, refVars, greeterVars>>
  \/ \E s \in ScopeIds : RunFinalizerFails(s) /\ UNCHANGED <<layerVars, graphVars, refVars, greeterVars>>
  \/ \E s \in ScopeIds : CloseDone(s) /\ UNCHANGED <<layerVars, graphVars, refVars, greeterVars>>

\* The scope scripts with finalizers that may fail when they are run.
CloseSpec == Init /\ [][CloseStep]_vars

ScopedLayerStep ==
  \/ \E s \in ScopeIds : Scoped(s) /\ UNCHANGED <<layerVars, graphVars, refVars, greeterVars>>
  \/ \E s \in ScopeIds : AcquireRelease(s) /\ UNCHANGED <<layerVars, graphVars, refVars, greeterVars>>
  \/ \E s \in ScopeIds : AcquireFail(s) /\ UNCHANGED <<layerVars, graphVars, refVars, greeterVars>>
  \/ \E s \in ScopeIds : Query(s) /\ UNCHANGED <<layerVars, graphVars, refVars, greeterVars>>
  \/ \E s \in ScopeIds : Return(s) /\ UNCHANGED <<layerVars, graphVars, refVars, greeterVars>>
  \/ \E s \in ScopeIds : Fail(s) /\ UNCHANGED <<layerVars, graphVars, refVars, greeterVars>>
  \/ \E s \in ScopeIds : Interrupt(s) /\ UNCHANGED <<layerVars, graphVars, refVars, greeterVars>>
  \/ \E s \in ScopeIds : RunFinalizer(s) /\ UNCHANGED <<layerVars, graphVars, refVars, greeterVars>>
  \/ \E s \in ScopeIds : CloseDone(s) /\ UNCHANGED <<layerVars, graphVars, refVars, greeterVars>>

\* The scoped layer scripts: scoped runs of a program provided with a layer
\* that acquires its resource with acquireRelease.
ScopedLayerSpec == Init /\ [][ScopedLayerStep]_vars

RefStep ==
  \/ \E n \in IncIds : StartIncs(n) /\ UNCHANGED <<scopeVars, layerVars, graphVars, greeterVars>>
  \/ \E i \in IncIds : Inc(i) /\ UNCHANGED <<scopeVars, layerVars, graphVars, greeterVars>>
  \/ Get /\ UNCHANGED <<scopeVars, layerVars, graphVars, greeterVars>>
  \/ StartAsync /\ UNCHANGED <<scopeVars, layerVars, graphVars, greeterVars>>
  \/ \E i \in AsyncIds : Enter(i) /\ UNCHANGED <<scopeVars, layerVars, graphVars, greeterVars>>
  \/ \E i \in AsyncIds : Save(i) /\ UNCHANGED <<scopeVars, layerVars, graphVars, greeterVars>>
  \/ AsyncGet /\ UNCHANGED <<scopeVars, layerVars, graphVars, greeterVars>>

\* The Ref scripts: the increments of the two counters in every interleaving.
RefSpec == Init /\ [][RefStep]_vars

GreeterStep ==
  \/ \E choice \in [UseIds -> GreeterLayers] : ProvideGreeters(choice) /\ UNCHANGED <<scopeVars, layerVars, graphVars, refVars>>
  \/ \E u \in UseIds : LookupGreeter(u) /\ UNCHANGED <<scopeVars, layerVars, graphVars, refVars>>
  \/ \E u \in UseIds : ConstructGreeter(u) /\ UNCHANGED <<scopeVars, layerVars, graphVars, refVars>>
  \/ \E u \in UseIds : AwaitGreeter(u) /\ UNCHANGED <<scopeVars, layerVars, graphVars, refVars>>

\* The greeter layers: every choice of layers and every order of the lookups.
GreeterSpec == Init /\ [][GreeterStep]_vars

GraphStep ==
  \/ /\ resolution.status = "idle"
     /\ \E g \in Compositions, r \in LayerIds :
          StartResolve(g, r) /\ UNCHANGED <<scopeVars, layerVars, refVars, greeterVars>>
  \/ CheckProvided /\ UNCHANGED <<scopeVars, layerVars, refVars, greeterVars>>
  \/ CheckOrder /\ UNCHANGED <<scopeVars, layerVars, refVars, greeterVars>>
  \/ \E l \in LayerIds : Construct(l) /\ UNCHANGED <<scopeVars, layerVars, refVars, greeterVars>>
  \/ RunProvided /\ UNCHANGED <<scopeVars, layerVars, refVars, greeterVars>>

\* The composition scripts: one composed layer resolved for one program.
GraphSpec == Init /\ [][GraphStep]_vars

\* A resolution that has started goes on to its end.
FairGraphSpec ==
  /\ GraphSpec
  /\ WF_vars(CheckProvided /\ UNCHANGED <<scopeVars, layerVars, refVars, greeterVars>>)
  /\ WF_vars(CheckOrder /\ UNCHANGED <<scopeVars, layerVars, refVars, greeterVars>>)

\* The main task never stops half way through a close: the finalizers of a
\* closing scope run and the close completes.
FairSpec ==
  /\ Spec
  /\ \A s \in ScopeIds :
       /\ WF_vars(RunFinalizer(s) /\ UNCHANGED <<layerVars, graphVars, refVars, greeterVars>>)
       /\ WF_vars(CloseDone(s) /\ UNCHANGED <<layerVars, graphVars, refVars, greeterVars>>)

\* ------------------------------------------------------------ properties
\* Positions of the log at which finalizer f was invoked.
RunsOf(f) == {i \in 1..Len(executionOrder) : executionOrder[i].fin = f}

Registered(s) == Range(scopes[s].finalizers)

RanOnce(f) == Cardinality(RunsOf(f)) = 1

AllRan(s) == \A f \in Registered(s) : RanOnce(f)

\* C1: the finalizers registered on a scope in the order f1, .., fn are invoked
\* by its close in the order fn, .., f1: a finalizer has run only if every
\* finalizer registered after it ran before it, and the closed scope ran all.
C1_ReverseRegistrationOrder ==
  \A s \in ScopeIds :
    LET fs == scopes[s].finalizers IN
    /\ \A i, j \in 1..Len(fs) :
         i < j =>
           \A p \in RunsOf(fs[i]) : \E q \in RunsOf(fs[j]) : q < p
    /\ scopes[s].state = "Closed" => AllRan(s)

\* basicScopeExample: f1 then f2 added to a made scope, closed with success,
\* and the log reads f2, f1.
C1_Witness ==
  /\ scopes["scopeA"].kind = "manual"
  /\ scopes["scopeA"].state = "Closed"
  /\ scopes["scopeA"].exit = ExitSuccess
  /\ scopes["scopeA"].finalizers = <<1, 2>>
  /\ executionOrder = <<[fin |-> 2, scope |-> "scopeA", exit |-> ExitSuccess],
                        [fin |-> 1, scope |-> "scopeA", exit |-> ExitSuccess]>>

\* C2: the release of an acquired resource is invoked exactly once when the
\* owning scope closes (not before, not twice), the interrupted task included.
C2_ReleaseExactlyOnce ==
  \A f \in FinIds :
    fins[f].kind = "release" =>
      LET s == fins[f].scope IN
      /\ f \in Registered(s)
      /\ Cardinality(RunsOf(f)) <= 1
      /\ scopes[s].state = "Open" => RunsOf(f) = {}
      /\ scopes[s].state = "Closed" => RanOnce(f)
      /\ \A i \in RunsOf(f) : executionOrder[i].scope = s

\* A resource acquired in a scoped block whose task was then interrupted: the
\* scope has closed and the release has run.
C2_Witness ==
  \E f \in FinIds :
    /\ fins[f].kind = "release"
    /\ scopes[fins[f].scope].kind = "scoped"
    /\ scopes[fins[f].scope].state = "Closed"
    /\ scopes[fins[f].scope].exit = ExitInterrupt
    /\ RanOnce(f)

BodyEnded(s) ==
  scopes[s].kind = "scoped" /\ lastOp[s] \in {"return", "fail", "interrupt", "acquireFail"}

\* C3: whatever way the body of a scoped block exits, its scope is eventually
\* closed with every registered finalizer run, and the block's result reaches
\* the caller only then.
C3_ScopedAlwaysCloses ==
  /\ [](\A s \in ScopeIds :
          (scopes[s].kind = "scoped" /\ result[s] # NoExit) =>
            (scopes[s].state = "Closed" /\ AllRan(s)))
  /\ \A s \in ScopeIds :
       BodyEnded(s) ~> (scopes[s].state = "Closed" /\ AllRan(s) /\ result[s] # NoExit)

\* Three scoped runs of finalizerWithExitExample in one: a scope with a
\* finalizer closed after a failure or an interruption of its body.
C3_Witness ==
  \E s \in ScopeIds :
    /\ scopes[s].kind = "scoped"
    /\ scopes[s].state = "Closed"
    /\ lastOp[s] = "interrupt"
    /\ Registered(s) # {}
    /\ AllRan(s)
    /\ result[s] = ExitInterrupt

\* C6: a finalizer registered on a scope is invoked exactly once during that
\* scope's close: not while the scope is open, once it ran it is no longer
\* pending, and when the close is over it ran once, whatever the exit.
C6_FinalizerExactlyOnce ==
  \A s \in ScopeIds :
    /\ \A i, j \in 1..Len(scopes[s].finalizers) :
         scopes[s].finalizers[i] = scopes[s].finalizers[j] => i = j
    /\ \A f \in Registered(s) :
         /\ Cardinality(RunsOf(f)) <= 1
         /\ scopes[s].state = "Open" => RunsOf(f) = {}
         /\ scopes[s].state = "Closing" =>
              (f \in Range(scopes[s].pending) <=> RunsOf(f) = {})
         /\ scopes[s].state = "Closed" => RanOnce(f)

\* Two finalizers on a scope whose computation failed, each run once.
C6_Witness ==
  \E s \in ScopeIds :
    /\ scopes[s].state = "Closed"
    /\ scopes[s].exit.tag = "Failure"
    /\ Len(scopes[s].finalizers) >= 2
    /\ AllRan(s)

\* C7: a scope enters Closing once, from Open, and never leaves Closed; a
\* second close of a closed scope runs nothing and leaves the scope as it was.
C7_CloseIdempotent ==
  [][\A s \in ScopeIds :
       /\ (scopes'[s].state = "Closing" /\ scopes[s].state # "Closing")
            => scopes[s].state = "Open"
       /\ scopes[s].state = "Closed" => scopes'[s] = scopes[s]
       /\ (closedAgain'[s] /\ ~closedAgain[s])
            => /\ executionOrder' = executionOrder
               /\ scopes'[s].state = "Closed"]_vars

\* A closed scope with a finalizer that was closed a second time.
C7_Witness ==
  \E s \in ScopeIds :
    /\ closedAgain[s]
    /\ scopes[s].state = "Closed"
    /\ Registered(s) # {}
    /\ AllRan(s)

\* Was f handed to addFinalizer / acquireRelease with a resource to release.
Added(f) == fins[f].kind \in {"finalizer", "release"}

\* C8 as claimed: a registration on a scope that is already closed fails with
\* ScopeClosedError and the finalizer is not appended to the scope's list.
C8_FailsWithScopeClosedError ==
  \A f \in FinIds :
    (Added(f) /\ fins[f].added # "registered") =>
      /\ fins[f].added = "ScopeClosedError"
      /\ f \notin Registered(fins[f].scope)

\* C8 as the scripts have it: a finalizer registered on a scope that is already
\* closed is not appended to the scope's list and the registration does not
\* fail; the finalizer is run at once, exactly once, with the scope's exit.
C8_ClosedScopeRunsAtOnce ==
  \A f \in FinIds :
    Added(f) =>
      \/ fins[f].added = "registered" /\ f \in Registered(fins[f].scope)
      \/ /\ fins[f].added = "ranImmediately"
         /\ f \notin Registered(fins[f].scope)
         /\ scopes[fins[f].scope].state # "Open"
         /\ RanOnce(f)
         /\ \A i \in RunsOf(f) : executionOrder[i].exit = scopes[fins[f].scope].exit

\* asyncScopeExample: the scope was closed while the task slept, and the task
\* then added its finalizer.
C8_Witness ==
  \E f \in FinIds :
    /\ fins[f].added = "ranImmediately"
    /\ task = [state |-> "completed", scope |-> fins[f].scope]
    /\ scopes[fins[f].scope].state = "Closed"

\* C9: a resource whose acquire failed has no finalizer on any scope and its
\* release is never invoked.
C9_FailedAcquireRegistersNothing ==
  \A f \in FinIds :
    fins[f].kind = "acquireFailed" =>
      /\ \A s \in ScopeIds :
           f \notin Registered(s) /\ f \notin Range(scopes[s].pending)
      /\ RunsOf(f) = {}

\* transactionExample, first attempt: a and b created, the creation of c failed
\* and was caught, and the scope has closed.
C9_Witness ==
  \E s \in ScopeIds :
    /\ scopes[s].kind = "scoped"
    /\ scopes[s].state = "Closed"
    /\ Len(scopes[s].finalizers) = 2
    /\ \E f \in FinIds : fins[f].kind = "acquireFailed" /\ fins[f].scope = s
    /\ AllRan(s)

\* C10: once the body of a scoped block has failed nothing more is acquired in
\* it; when the failure reaches the caller the result is a Failure and every
\* resource acquired before was released with a Failure exit.
C10_FailureReleasesThenPropagates ==
  /\ [](\A s \in ScopeIds :
          (scopes[s].kind = "scoped" /\ lastOp[s] = "fail" /\ result[s] # NoExit) =>
            /\ result[s].tag = "Failure"
            /\ \A f \in Registered(s) :
                 /\ RanOnce(f)
                 /\ \A i \in RunsOf(f) : executionOrder[i].exit.tag = "Failure")
  /\ [][\A s \in ScopeIds :
          (scopes[s].kind = "scoped" /\ lastOp[s] = "fail") =>
            /\ lastOp'[s] = "fail"
            /\ scopes'[s].finalizers = scopes[s].finalizers
            /\ \A f \in FinIds : fins'[f].scope = s => fins[f].scope = s]_vars

\* multipleResourcesExample's failProgram: A acquired, the body failed, A was
\* released with the failure and the failure reached the caller.
C10_Witness ==
  \E s \in ScopeIds :
    /\ scopes[s].kind = "scoped"
    /\ lastOp[s] = "fail"
    /\ result[s] = ExitFail
    /\ Len(scopes[s].finalizers) = 1
    /\ fins[scopes[s].finalizers[1]].kind = "release"
    /\ executionOrder[Len(executionOrder)] =
         [fin |-> scopes[s].finalizers[1], scope |-> s, exit |-> ExitFail]

\* The exits handed to the finalizers of s that have run.
ExitsSeen(s) ==
  {executionOrder[i].exit :
     i \in {j \in 1..Len(executionOrder) : executionOrder[j].scope = s}}

\* C11: when the computation in a scoped block is interrupted, every finalizer
\* registered on its scope is eventually run, and each is handed the
\* interruption as the exit, never another one.
C11_InterruptRunsAllFinalizers ==
  /\ [](\A s \in ScopeIds :
          (scopes[s].kind = "scoped" /\ lastOp[s] = "interrupt") =>
            /\ ExitsSeen(s) \subseteq {ExitInterrupt}
            /\ scopes[s].state = "Closed" => AllRan(s))
  /\ \A s \in ScopeIds :
       (scopes[s].kind = "scoped" /\ lastOp[s] = "interrupt") ~>
         (scopes[s].state = "Closed" /\ AllRan(s) /\ ExitsSeen(s) \subseteq {ExitInterrupt})

\* finalizerWithExitExample's interruptProgram with a second finalizer: both
\* ran, last registered first, each with the interruption.
C11_Witness ==
  \E s \in ScopeIds :
    /\ scopes[s].kind = "scoped"
    /\ lastOp[s] = "interrupt"
    /\ scopes[s].state = "Closed"
    /\ Len(scopes[s].finalizers) = 2
    /\ \A f \in Registered(s) : fins[f].kind = "finalizer" /\ RanOnce(f)
    /\ ExitsSeen(s) = {ExitInterrupt}

\* C12: a finalizer of a scoped block is handed an exit whose tag is Success
\* when the body returned, Failure when the body failed, and Failure when the
\* body was interrupted; no other tag is ever handed to a finalizer.
C12_FinalizerExitTag ==
  /\ \A i \in 1..Len(executionOrder) :
       executionOrder[i].exit.tag \in {"Success", "Failure"}
  /\ \A s \in ScopeIds :
       scopes[s].kind = "scoped" =>
         \A e \in ExitsSeen(s) :
           /\ lastOp[s] = "return" => e.tag = "Success"
           /\ lastOp[s] \in {"fail", "acquireFail"} => e.tag = "Failure"
           /\ lastOp[s] = "interrupt" => e.tag = "Failure"

\* finalizerWithExitExample: successProgram then interruptProgram, the
\* finalizer of the first saw Success and the finalizer of the second Failure.
C12_Witness ==
  /\ scopes["scopeA"].kind = "scoped" /\ lastOp["scopeA"] = "return"
  /\ scopes["scopeB"].kind = "scoped" /\ lastOp["scopeB"] = "interrupt"
  /\ Len(executionOrder) = 2
  /\ executionOrder[1].scope = "scopeA" /\ executionOrder[1].exit.tag = "Success"
  /\ executionOrder[2].scope = "scopeB" /\ executionOrder[2].exit.tag = "Failure"
  /\ executionOrder[2].exit.cause = "Interrupt"

\* (a, exit) => Exit.isFailure(exit) ? Effect.sync(() => serviceA.delete(a))
\*                                   : Effect.void
Deletes(e) == e.tag = "Failure"

\* Was the resource released by f deleted by its release.
Deleted(f) == \E i \in RunsOf(f) : Deletes(executionOrder[i].exit)

\* The creation of a resource failed in the scoped block s and was caught.
CreationFailedIn(s) ==
  \E f \in FinIds : fins[f].kind = "acquireFailed" /\ fins[f].scope = s

\* The releases registered in the scoped block s.
Created(s) == {f \in Registered(s) : fins[f].kind = "release"}

Committed(s) ==
  scopes[s].kind = "scoped" /\ scopes[s].state = "Closed" /\ lastOp[s] = "return"

\* C21 as claimed: when the creation of C failed after A and B were created in
\* the scoped transaction, the close of the scope deletes A and B; when every
\* creation succeeded nothing is deleted.
C21_RollbackDeletesCreated ==
  \A s \in ScopeIds :
    Committed(s) =>
      /\ CreationFailedIn(s) => \A f \in Created(s) : Deleted(f)
      /\ ~CreationFailedIn(s) => \A f \in Created(s) : ~Deleted(f)

\* transactionExample, first attempt: A and B created, the creation of C
\* failed and was caught by Effect.either, the body returned null; the scope
\* closed with Success, both releases ran and neither deleted anything.
C21_Witness ==
  /\ Committed("scopeA")
  /\ CreationFailedIn("scopeA")
  /\ scopes["scopeA"].finalizers = <<1, 2>>
  /\ Created("scopeA") = {1, 2}
  /\ RanOnce(1) /\ RanOnce(2)
  /\ ~Deleted(1) /\ ~Deleted(2)

\* C22: the close of a made scope does not cancel the task forked with that
\* scope extended: a close step leaves the task as it is, a sleeping task only
\* ever goes on to complete, and it can still do so once the scope is closed.
C22_CloseDoesNotCancelTask ==
  /\ [](task.state \in {"none", "sleeping", "completed"})
  /\ []((task.state = "sleeping" /\ nextFin <= MaxFins) =>
          ENABLED (TaskAddFinalizer(task.scope) /\ UNCHANGED <<layerVars, graphVars, refVars, greeterVars>>))
  /\ [][/\ task.state = "sleeping" =>
            (task' = task \/ task' = [task EXCEPT !.state = "completed"])
        /\ (\E s \in ScopeIds : scopes'[s].state # scopes[s].state) => task' = task]_vars

\* asyncScopeExample: the scope was closed while the task slept
\* (closedBeforeCompleted), and the task has completed all the same.
C22_Witness ==
  /\ task = [state |-> "completed", scope |-> "scopeA"]
  /\ scopes["scopeA"].kind = "manual"
  /\ scopes["scopeA"].state = "Closed"
  /\ lastOp["scopeA"] = "close"
  /\ scopes["scopeA"].finalizers = <<>>
  /\ Len(executionOrder) = 1

\* C23: the finalizer that the forked task registers once its scope has been
\* closed is run all the same: the step in which the task registers it runs
\* it, with the exit the scope was closed with, and it is run just once.
C23_LateFinalizerStillRuns ==
  /\ [](\A f \in FinIds :
          (fins[f].kind = "finalizer" /\ fins[f].added # "registered") =>
            (RanOnce(f) /\ scopes[fins[f].scope].state # "Open"))
  /\ [][(task.state = "sleeping" /\ task'.state = "completed"
           /\ scopes[task.scope].state # "Open")
          => executionOrder' =
               Append(executionOrder,
                      [fin |-> nextFin, scope |-> task.scope,
                       exit |-> scopes[task.scope].exit])]_vars

\* asyncScopeExample: a finalizer added by the main task ran when the scope
\* was closed, then the task woke up and its own finalizer ran: "Task cleanup".
C23_Witness ==
  /\ task = [state |-> "completed", scope |-> "scopeA"]
  /\ scopes["scopeA"].state = "Closed"
  /\ scopes["scopeA"].finalizers = <<1>>
  /\ fins[2].added = "ranImmediately"
  /\ executionOrder = <<[fin |-> 1, scope |-> "scopeA", exit |-> ExitSuccess],
                        [fin |-> 2, scope |-> "scopeA", exit |-> ExitSuccess]>>

\* C27: the release of a resource used with Scope.extend(scope) is on the list
\* of that scope and is run by its close, not before and by no other close;
\* the close of a scope never closes another scope, one made under it included.
C27_ExtendedJoinsIndependentStays ==
  /\ [](\A f \in FinIds :
          (fins[f].kind = "release" /\ fins[f].added = "registered"
             /\ scopes[fins[f].scope].kind = "manual") =>
            LET s == fins[f].scope IN
            /\ f \in Registered(s)
            /\ \A t \in ScopeIds \ {s} : f \notin Registered(t)
            /\ scopes[s].state = "Open" => RunsOf(f) = {}
            /\ scopes[s].state = "Closed" => RanOnce(f)
            /\ \A i \in RunsOf(f) : executionOrder[i].scope = s)
  /\ [][\A s, t \in ScopeIds :
          (s # t /\ scopes[s].state = "Open" /\ scopes'[s].state = "Closing")
            => scopes'[t].state = scopes[t].state]_vars

\* Two resources extended into scopeA, scopeB made while scopeA was held:
\* scopeA is closed and has released both, scopeB is still open.
C27_Witness ==
  /\ scopes["scopeA"].kind = "manual" /\ scopes["scopeA"].state = "Closed"
  /\ scopes["scopeA"].finalizers = <<1, 2>>
  /\ fins[1].kind = "release" /\ fins[2].kind = "release"
  /\ RanOnce(1) /\ RanOnce(2)
  /\ scopes["scopeB"].kind = "manual" /\ scopes["scopeB"].state = "Open"
  /\ scopes["scopeB"].finalizers = <<>>

\* C29: of two resources acquired with acquireRelease in the same scope, the
\* one acquired later is released first: the release of the earlier one has
\* run only if the release of the later one ran before it.
C29_ReleaseReverseOfAcquisition ==
  \A f, g \in FinIds :
    (f < g /\ fins[f].kind = "release" /\ fins[g].kind = "release"
       /\ fins[f].scope = fins[g].scope
       /\ fins[f].added = "registered" /\ fins[g].added = "registered") =>
      /\ \A p \in RunsOf(f) : \E q \in RunsOf(g) : q < p
      /\ scopes[fins[f].scope].state = "Closed" => (RanOnce(f) /\ RanOnce(g))

\* multipleResourcesExample's successProgram: A then B acquired in one scoped
\* block, the body returned, B was released and then A.
C29_Witness ==
  \E s \in ScopeIds :
    /\ scopes[s].kind = "scoped"
    /\ lastOp[s] = "return"
    /\ scopes[s].state = "Closed"
    /\ Len(scopes[s].finalizers) = 2
    /\ \A f \in Registered(s) : fins[f].kind = "release"
    /\ Len(executionOrder) >= 2
    /\ executionOrder[Len(executionOrder) - 1].fin = scopes[s].finalizers[2]
    /\ executionOrder[Len(executionOrder)].fin = scopes[s].finalizers[1]

\* C13: a finalizer whose own run fails does not keep the remaining finalizers
\* of the scope from running, whatever exit the scope is closed with, a Failure
\* included: after the failure the finalizers not yet run are still pending,
\* and the closed scope has run every one of them once.
C13_FailedFinalizerDoesNotStopOthers ==
  /\ [](\A s \in ScopeIds :
          /\ finErrors[s] \subseteq Registered(s)
          /\ \A f \in finErrors[s] : RanOnce(f)
          /\ scopes[s].state = "Closing" =>
               \A f \in Registered(s) :
                 f \in Range(scopes[s].pending) <=> RunsOf(f) = {}
          /\ scopes[s].state = "Closed" => AllRan(s))
  /\ [][\A s \in ScopeIds :
          finErrors'[s] # finErrors[s] =>
            /\ scopes'[s].state = "Closing"
            /\ scopes'[s].pending = Tail(scopes[s].pending)]_vars

\* A scope with two finalizers closed with a Failure: the finalizer run first
\* failed and the other one ran all the same.
C13_Witness ==
  /\ scopes["scopeA"].kind = "manual"
  /\ scopes["scopeA"].state = "Closed"
  /\ scopes["scopeA"].exit = ExitFail
  /\ scopes["scopeA"].finalizers = <<1, 2>>
  /\ finErrors["scopeA"] = {2}
  /\ RanOnce(1) /\ RanOnce(2)

\* C14: what a close reports keeps the exit the scope was closed with beside
\* the failures of the finalizers: after a failed body whose finalizers failed
\* too the report is a Failure that still holds the body's failure, and holds
\* every finalizer failure captured, none replaced and none dropped.
C14_FinalizerFailuresMerged ==
  /\ [](\A s \in ScopeIds :
          scopes[s].state = "Closed" =>
            /\ closeResult[s].primary = scopes[s].exit
            /\ closeResult[s].finalizerErrors = finErrors[s]
            /\ (scopes[s].exit.tag = "Failure" \/ finErrors[s] # {})
                 <=> closeResult[s].tag = "Failure"
            /\ (scopes[s].kind = "scoped" /\ lastOp[s] = "fail") =>
                 closeResult[s].primary = ExitFail)
  /\ [][\A s \in ScopeIds :
          /\ finErrors[s] \subseteq finErrors'[s]
          /\ scopes[s].state = "Closed" => closeResult'[s] = closeResult[s]]_vars

\* A scoped block whose body failed and whose two finalizers both failed.
C14_Witness ==
  \E s \in ScopeIds :
    /\ scopes[s].kind = "scoped"
    /\ lastOp[s] = "fail"
    /\ scopes[s].state = "Closed"
    /\ Len(scopes[s].finalizers) = 2
    /\ finErrors[s] = Registered(s)
    /\ closeResult[s] =
         [tag |-> "Failure", primary |-> ExitFail, finalizerErrors |-> Registered(s)]

\* C20: scopes made independently close independently: a step that closes a
\* scope or runs one of its finalizers leaves every other scope as it was and
\* logs only finalizers of the closing scope; a scope that is still open has
\* none of its finalizers run, whatever happened to the other scope.
C20_ScopesCloseIndependently ==
  /\ [](\A s \in ScopeIds :
          /\ scopes[s].state = "Open" => \A f \in Registered(s) : RunsOf(f) = {}
          /\ \A f \in Registered(s) :
               \A i \in RunsOf(f) : executionOrder[i].scope = s)
  /\ [][\A s, t \in ScopeIds :
          (s # t /\ scopes'[s] # scopes[s] /\ scopes'[s].state \in {"Closing", "Closed"})
            => /\ scopes'[t] = scopes[t]
               /\ \A i \in (Len(executionOrder) + 1)..Len(executionOrder') :
                    /\ executionOrder'[i].scope = s
                    /\ executionOrder'[i].fin \in Range(scopes[s].finalizers)]_vars

\* manualScopeExample: a acquired on scopeA, b on scopeB, scopeA closed: a has
\* been released, scopeB is open and b has not been released.
C20_Witness ==
  /\ scopes["scopeA"].kind = "manual" /\ scopes["scopeA"].state = "Closed"
  /\ scopes["scopeB"].kind = "manual" /\ scopes["scopeB"].state = "Open"
  /\ scopes["scopeA"].finalizers = <<1>> /\ fins[1].kind = "release"
  /\ scopes["scopeB"].finalizers = <<2>> /\ fins[2].kind = "release"
  /\ executionOrder = <<[fin |-> 1, scope |-> "scopeA", exit |-> ExitSuccess]>>

Resolved == pass > 0 /\ PassOver

\* The branches that were handed a ServiceA built apart from the memo map.
BuiltApart == {b \in Branches : fresh[b] /\ branch[b].a # 0}

\* C19: while the merged branches are built concurrently, ServiceALive taken
\* through the memo map is constructed at most once in every interleaving: at
\* most one branch is ever constructing it, none once it is memoized, and the
\* constructor runs counted besides the fresh ones never exceed one.
C19_ConcurrentSiblingsBuildOnce ==
  LET building == {b \in Branches : ~fresh[b] /\ branch[b].pc = "construct"} IN
  /\ Cardinality(building) <= 1
  /\ memoMap.state = "done" => building = {}
  /\ serviceAInitCount - Cardinality(BuiltApart) <= 1
  /\ \A b \in Branches :
       (~fresh[b] /\ branch[b].a # 0) =>
         (memoMap.state = "done" /\ branch[b].a = memoMap.value)

\* One sibling is constructing ServiceALive while the other, which asked for
\* it meanwhile, waits for the memo entry.
C19_Witness ==
  /\ \A b \in Branches : ~fresh[b]
  /\ memoMap.state = "pending"
  /\ branch["C"].pc = "construct"
  /\ branch["B"].pc = "await"

\* C4: in a resolution where both branches are provided with ServiceALive
\* itself, its constructor runs once and both branches observe that instance.
C4_SharedLayerBuiltOnce ==
  (\A b \in Branches : ~fresh[b]) =>
    /\ serviceAInitCount <= 1
    /\ \A b, c \in Branches :
         (branch[b].a # 0 /\ branch[c].a # 0) => branch[b].a = branch[c].a
    /\ Resolved =>
         /\ serviceAInitCount = 1
         /\ progResult.bResult = 1
         /\ progResult.cResult = 1

\* serviceAInitCount === 1, bResult "B using A-1", cResult "C using A-1".
C4_Witness ==
  /\ Resolved
  /\ \A b \in Branches : ~fresh[b]
  /\ serviceAInitCount = 1
  /\ progResult = [bResult |-> 1, cResult |-> 1]

\* C5: in a resolution where ServiceALive is wrapped in Layer.fresh in one
\* branch or in both, its constructor runs twice and the two branches observe
\* distinct instances.
C5_FreshBuildsApart ==
  ((\E b \in Branches : fresh[b]) /\ Resolved) =>
    /\ serviceAInitCount = 2
    /\ progResult.bResult # progResult.cResult
    /\ {progResult.bResult, progResult.cResult} = {1, 2}

\* Layer.fresh in one branch only, the other branch built through the memo map.
C5_Witness ==
  /\ Resolved
  /\ fresh["B"] /\ ~fresh["C"]
  /\ memoMap.state = "done"
  /\ serviceAInitCount = 2
  /\ progResult.bResult # progResult.cResult

\* The layers ls and all they require, directly or through other layers.
RECURSIVE RequiredBy(_, _)
RequiredBy(g, ls) ==
  LET more == ls \cup UNION {g.deps[l] : l \in ls \cap LayerIds} IN
  IF more = ls THEN ls ELSE RequiredBy(g, more)

\* m requires l, directly or through other layers.
DependsOn(g, m, l) == l \in RequiredBy(g, g.deps[m])

\* The layers that require themselves.
OnCycle(g) == {l \in g.present : DependsOn(g, l, l)}

\* Some tag is asked for, by the program or by a layer, and not provided.
TagMissing ==
  \/ requires \notin allLayers.present
  \/ \E l \in allLayers.present : ~(allLayers.deps[l] \subseteq allLayers.present)

Started == resolution.status \notin {"idle", "checking"}

\* C15: the construction of a layer starts only once every layer it requires
\* has been constructed, in every composition and every order of construction.
C15_DependenciesFirst ==
  /\ [](\A l \in resolution.built : allLayers.deps[l] \subseteq resolution.built)
  /\ [][\A l \in LayerIds :
          (l \in resolution'.built \ resolution.built \/
             (resolution'.error = l /\ resolution.error # l))
            => allLayers.deps[l] \subseteq resolution.built]_vars

\* layerCompositionExample: Database provided with Config, UserRepo provided
\* with Database, all three built and the program run.
C15_Witness ==
  /\ allLayers.present = LayerIds
  /\ allLayers.deps = [l \in LayerIds |->
                         IF l = "UserRepo" THEN {"Database"}
                         ELSE IF l = "Database" THEN {"Config"} ELSE {}]
  /\ requires = "UserRepo"
  /\ resolution = [status |-> "Success", built |-> LayerIds, error |-> "none"]

\* C16: when the program, or a layer, asks for a tag that no layer of the
\* composition provides, the resolution ends with MissingDependencyError and
\* with no other outcome, and nothing is constructed; it ends so only then.
C16_MissingDependencyError ==
  /\ (Started /\ TagMissing) =>
       (resolution.status = "MissingDependencyError" /\ resolution.built = {})
  /\ resolution.status = "MissingDependencyError" => TagMissing

\* The program asks for UserRepo and only Config and Database are provided.
C16_Witness ==
  /\ allLayers.present = {"Config", "Database"}
  /\ allLayers.deps["Database"] = {"Config"}
  /\ requires = "UserRepo"
  /\ resolution.status = "MissingDependencyError"

C30_MemoNotSharedAcrossRuns ==
  /\ [](\A b \in Branches :
          branch[b].a # 0 => (1 <= branch[b].a /\ branch[b].a <= serviceAInitCount))
  /\ [](memoMap.state = "done" =>
          (1 <= memoMap.value /\ memoMap.value <= serviceAInitCount))
  /\ []((Resolved /\ pass >= 2) => serviceAInitCount >= 1)
  /\ [][pass' # pass => memoMap' = NoEntry]_vars

\* The second run of the merged layer, ServiceALive shared by both branches:
\* it was constructed once in this run too.
C30_Witness ==
  /\ pass = 2
  /\ Resolved
  /\ \A b \in Branches : ~fresh[b]
  /\ serviceAInitCount = 1
  /\ memoMap = [state |-> "done", value |-> 1]

\* C24: the resource a scoped layer acquired is used only while its release
\* has not run; the release runs only once the program has finished, and it
\* has run by the time the scoped run hands its result to the caller.
C24_UseBeforeReleaseBeforeReturn ==
  /\ [][\A s \in ScopeIds :
          queriesRun'[s] # queriesRun[s] =>
            /\ scopes[s].state = "Open"
            /\ Created(s) # {}
            /\ \A f \in Created(s) : RunsOf(f) = {}]_vars
  /\ [](\A s \in ScopeIds :
          (\E f \in Created(s) : RunsOf(f) # {}) =>
            (scopes[s].kind = "scoped" => BodyEnded(s)))
  /\ [](\A s \in ScopeIds :
          (scopes[s].kind = "scoped" /\ result[s] # NoExit) =>
            \A f \in Created(s) : RanOnce(f))

\* scopedLayersExample: the connection was opened, two queries were run, the
\* program returned, the connection was closed and the run has returned.
C24_Witness ==
  \E s \in ScopeIds :
    /\ scopes[s].kind = "scoped"
    /\ Len(scopes[s].finalizers) = 1
    /\ Created(s) = Registered(s)
    /\ queriesRun[s] = 2
    /\ lastOp[s] = "return"
    /\ AllRan(s)
    /\ result[s] = ExitSuccess

\* The increments started, and those of them that have completed.
IncsStarted == {i \in IncIds : incs[i] # "none"}

IncsCompleted == {i \in IncIds : incs[i] = "done"}

\* C25: no increment of the Ref-backed Counter is lost, in any interleaving:
\* the Ref holds the number of increments completed, and once all N of them
\* have completed get returns N.
C25_NoLostIncrement ==
  /\ refValue = Cardinality(IncsCompleted)
  /\ got # -1 => (got = Cardinality(IncsStarted) /\ IncsStarted = IncsCompleted)

\* All MaxIncs increments were started, all have completed, get returned
\* their number.
C25_Witness ==
  /\ IncsStarted = IncIds
  /\ IncsCompleted = IncIds
  /\ got = MaxIncs

\* C26 as claimed: once the five inc of the AsyncCounter made by makeAsync
\* have all completed, get returns 5.
C26_GetReturnsFive ==
  asyncGot # -1 => asyncGot = 5

\* synchronizedRef: the five inc have completed one after the other, each
\* given the n the one before had written, and get returned 105.
C26_Witness ==
  /\ \A i \in AsyncIds : asyncIncs[i].pc = "done"
  /\ {asyncIncs[i].n : i \in AsyncIds} = 100..104
  /\ permit = 0
  /\ asyncGot = AsyncInitial + AsyncIncs

\* The greeter layers that occur in the resolution.
Occurring == {uses[u].layer : u \in UseIds} \cap GreeterLayers

GreetersResolved == \A u \in UseIds : uses[u].pc = "done"

\* C28: the memo map is keyed by the layer, not by the tag it provides: a
\* place is only ever served the service of its own layer, never the one
\* cached for the other layer of the same tag, and when the resolution is
\* over every layer that occurs in it has been constructed, once.
C28_MemoKeyIsLayerIdentity ==
  /\ \A u \in UseIds : uses[u].pc = "done" => uses[u].service = ServiceOf(uses[u].layer)
  /\ GreetersResolved =>
       \A l \in GreeterLayers : greeterBuilt[l] = IF l \in Occurring THEN 1 ELSE 0

\* KindGreeterLayer and MeanGreeterLayer both occur in one resolution, one of
\* them at two places; the resolution is over and both were constructed.
C28_Witness ==
  /\ GreetersResolved
  /\ Occurring = GreeterLayers
  /\ \A l \in GreeterLayers : greeterBuilt[l] = 1
  /\ \E u \in UseIds : greeterMemo[uses[u].layer].service = "meanGreeter"
====
